---------------------------- MODULE Spec2Model ----------------------------
(***************************************************************************)
(* Model of the prove2pubkeys repository:                                  *)
(*   - the circom circuit TwoKeysFromEd25519HD (2pubkeys.circom) and its   *)
(*     templates, evaluated signal by signal as the witness generator does *)
(*   - the Poseidon circuit Prove2PubKeys with the TypeScript derivation   *)
(*     and proof generation that feed it                                   *)
(*   - the reference SLIP-0010 derivation (actual_solana.ts)               *)
(* Field elements and JavaScript numbers are naturals written as           *)
(* little-endian sequences of 16-bit limbs without leading zero limbs, so  *)
(* that values such as 0x80000000 and the BN254 scalar field prime keep    *)
(* their exact value.                                                      *)
(***************************************************************************)
EXTENDS Integers, Sequences, FiniteSets, TLC

\* ------------------------------------------------------------------------
\* Natural numbers as limb sequences
\* ------------------------------------------------------------------------

Base == 2^16

Zero == <<>>
One == <<1>>

\* the natural k < Base as a number
N(k) == IF k = 0 THEN <<>> ELSE <<k>>

Limb(a, i) == IF i <= Len(a) THEN a[i] ELSE 0

RECURSIVE Norm(_)
Norm(a) == IF Len(a) > 0 /\ a[Len(a)] = 0 THEN Norm(SubSeq(a, 1, Len(a) - 1)) ELSE a

Max(x, y) == IF x >= y THEN x ELSE y

RECURSIVE AddFrom(_, _, _, _)
AddFrom(a, b, i, carry) ==
    IF i > Max(Len(a), Len(b))
    THEN (IF carry = 0 THEN <<>> ELSE <<carry>>)
    ELSE LET s == Limb(a, i) + Limb(b, i) + carry
         IN <<s % Base>> \o AddFrom(a, b, i + 1, s \div Base)

Add(a, b) == Norm(AddFrom(a, b, 1, 0))

RECURSIVE LessFrom(_, _, _)
LessFrom(a, b, i) ==
    IF i = 0 THEN FALSE
    ELSE IF Limb(a, i) # Limb(b, i) THEN Limb(a, i) < Limb(b, i)
    ELSE LessFrom(a, b, i - 1)

\* a < b
Less(a, b) == LessFrom(a, b, Max(Len(a), Len(b)))

RECURSIVE SubFrom(_, _, _, _)
SubFrom(a, b, i, borrow) ==
    IF i > Len(a) THEN <<>>
    ELSE LET d == Limb(a, i) - Limb(b, i) - borrow
         IN IF d < 0 THEN <<d + Base>> \o SubFrom(a, b, i + 1, 1)
                     ELSE <<d>> \o SubFrom(a, b, i + 1, 0)

\* a - b for a >= b
Sub(a, b) == Norm(SubFrom(a, b, 1, 0))

\* ------------------------------------------------------------------------
\* The circuit's field: the BN254 scalar field circom compiles to
\* ------------------------------------------------------------------------

FieldPrime ==
    <<1, 61440, 62867, 17377, 28817, 31161, 59464, 10291,
      22621, 33153, 17846, 47184, 41001, 57649, 20082, 12388>>

FReduce(a) == IF Less(a, FieldPrime) THEN a ELSE Sub(a, FieldPrime)

\* a + b on signals
FAdd(a, b) == FReduce(Add(a, b))

\* 0x80000000
HardenedOffset == <<0, 2^15>>

\* ------------------------------------------------------------------------
\* 2pubkeys.circom: templates
\* ------------------------------------------------------------------------

KeyBits == 256

\* SimpleSha256(inputBytes): out[i] <== in[i] for the first 256 input bits
SimpleSha256(inputBytes, in) ==
    [i \in 1..KeyBits |-> IF i <= 8 * inputBytes THEN in[i] ELSE Zero]

\* HmacSha256: signal inner_key[256], "K XOR ipad (simplified)"
HmacInnerKey(keyBytes, key) ==
    [i \in 1..KeyBits |-> IF i <= 8 * keyBytes THEN key[i] ELSE Zero]

\* HmacSha256: signal outer_key[256], "K XOR opad (simplified)"
HmacOuterKey(keyBytes, key) ==
    [i \in 1..KeyBits |-> IF i <= 8 * keyBytes THEN key[i] ELSE Zero]

\* HmacSha256(keyBytes, msgBytes)
HmacSha256(keyBytes, msgBytes, key, msg) ==
    LET inner_key == HmacInnerKey(keyBytes, key)
        inner_msg == inner_key \o msg
        inner_sha == SimpleSha256(32 + msgBytes, inner_msg)
        outer_key == HmacOuterKey(keyBytes, key)
        outer_msg == outer_key \o inner_sha
        outer_sha == SimpleSha256(64, outer_msg)
    IN  [i \in 1..KeyBits |-> outer_sha[i]]

\* Ed25519PubFromSeed
Ed25519PubFromSeed(seedBits) ==
    LET sha == SimpleSha256(32, seedBits)
    IN  [i \in 1..KeyBits |-> sha[i]]

\* component hmac = HmacSha256(13, 37): the declared key length
MasterKeyBytes == 13

\* the constants wired to hmac.key[0..103] in GetMasterKeyFromSeed
MasterHmacKey ==
    LET b == << 1,0,1,0, 0,1,1,0,   0,0,1,0, 0,1,1,0,
                0,1,0,0, 1,1,0,0,   1,0,1,0, 1,1,0,0,
                1,0,0,0, 1,1,0,0,   1,0,0,1, 1,1,1,0,
                0,0,0,0, 0,0,1,0,   1,1,0,0, 1,1,1,0,
                1,0,1,0, 0,1,1,0,   1,0,1,0, 0,1,1,0,
                0,0,1,0, 0,1,1,0 >>
    IN  [i \in 1..(8 * MasterKeyBytes) |-> IF i <= 88 THEN N(b[i]) ELSE Zero]

SeedBits == 8 * 37

\* GetMasterKeyFromSeed
GetMasterKeyFromSeed(seedBits) ==
    LET hmac == HmacSha256(MasterKeyBytes, 37, MasterHmacKey, seedBits)
    IN  [key |-> [i \in 1..KeyBits |-> hmac[i]],
         chainCode |-> [i \in 1..KeyBits |-> hmac[i]]]

\* CKDPriv
CKDPriv(key, chainCode, index) ==
    LET data == [i \in 1..SeedBits |->
                    IF i <= 8 THEN Zero
                    ELSE IF i <= 8 + KeyBits THEN key[i - 8]
                    ELSE index]
        hmac == HmacSha256(32, 37, chainCode, data)
    IN  [newKey |-> [i \in 1..KeyBits |-> hmac[i]],
         newChainCode |-> [i \in 1..KeyBits |-> hmac[i]],
         data |-> data]


\* ------------------------------------------------------------------------
\* State
\* ------------------------------------------------------------------------

VARIABLES
    \* TwoKeysFromEd25519HD: inputs
    seed, pk0, pk1, path0, path1,
    \* TwoKeysFromEd25519HD: the master component's outputs (<<>> until computed)
    master,
    \* per chain c in {0, 1}: the key / chain code signals of levels 0..4
    \* (currentKey_c, key_c_1, key_c_2, key_c_3, finalKey_c), the index and
    \* data signals of the CKDPriv components, and pkgen_c.pk
    chainKey, chainCode, ckdIndex, ckdData, pkgenPk,
    \* witness generation: "idle", "run", "done" (all constraints hold),
    \* "failed" (an === constraint does not hold)
    pc,
    success, publicSignals,
    \* TRUE in a second witness generation whose inputs are those of a
    \* satisfying assignment with one seed bit or one path index changed
    perturbed

cktVars == <<seed, pk0, pk1, path0, path1, master, chainKey, chainCode,
             ckdIndex, ckdData, pkgenPk, pc, success, publicSignals, perturbed>>

VARIABLES
    \* the TypeScript call: [seed, path1, path2] as deriveTwoPublicKeys and
    \* generateProof receive them, and which copy of the derivation module runs
    args, impl,
    \* the Poseidon function (circomlib in the circuit, circomlibjs in
    \* TypeScript), as the table of the values it has returned so far
    oracle,
    \* deriveTwoPublicKeys: privateKey1, privateKey2, pubkey1, pubkey2
    derived,
    \* generateProof: the input object, the circuit's signals, what it returns
    input, wit, result,
    \* console.log / console.error lines
    log,
    \* position of the TypeScript driver
    step

VARIABLES
    \* the invocations of snarkjs.groth16.fullProve made by generateProof, and
    \* what generateProof threw (<<>> while it has thrown nothing)
    fullProveCalls, thrown

prvVars == <<args, impl, oracle, derived, input, wit, result, log, step,
             fullProveCalls, thrown>>

VARIABLES
    \* derivePath(seed, path) of the reference derivation: the written path,
    \* the parsed indices, the loop position, key and chainCode, and the
    \* derivation steps performed so far
    refPath, indices, refPos, refKey, refChain, refTrace, refPc

refVars == <<refPath, indices, refPos, refKey, refChain, refTrace, refPc>>

VARIABLES
    \* keyDerivation.ts module state: the poseidon singleton and its field F
    \* (0 for null, else the number of the instance built), the buildPoseidon()
    \* invocations so far, and the callers of initPoseidon
    poseidon, F, builds, callers,
    \* the calls of deriveTwoPublicKeys completed so far
    calls,
    \* one call of verifyProof / verifyWitness / verifyKeyDerivation: its
    \* arguments, where it is, what its catch caught ("" for nothing), what it
    \* returned (read once pc is "returned") and what it threw ("" for nothing)
    vfy,
    \* main of index2.ts
    drv

appVars == <<poseidon, F, builds, callers, calls, vfy, drv>>

vars == <<cktVars, prvVars, refVars, appVars>>

CktIdle ==
    /\ seed = <<>> /\ pk0 = <<>> /\ pk1 = <<>> /\ path0 = <<>> /\ path1 = <<>>
    /\ master = <<>> /\ chainKey = <<>> /\ chainCode = <<>> /\ ckdIndex = <<>>
    /\ ckdData = <<>> /\ pkgenPk = <<>> /\ pc = "idle" /\ success = <<>>
    /\ publicSignals = <<>> /\ perturbed = FALSE

PrvIdle ==
    /\ args = <<>> /\ impl = "" /\ oracle = <<>> /\ derived = <<>>
    /\ input = <<>> /\ wit = <<>> /\ result = <<>> /\ log = <<>> /\ step = "idle"
    /\ fullProveCalls = 0 /\ thrown = <<>>

RefIdle ==
    /\ refPath = <<>> /\ indices = <<>> /\ refPos = 0 /\ refKey = <<>>
    /\ refChain = <<>> /\ refTrace = <<>> /\ refPc = "idle"

AppIdle ==
    /\ poseidon = 0 /\ F = 0 /\ builds = 0 /\ callers = <<>> /\ calls = <<>>
    /\ vfy = <<>> /\ drv = <<>>

Chains == {0, 1}
Levels == 4

\* ------------------------------------------------------------------------
\* TwoKeysFromEd25519HD: inputs the model draws
\* ------------------------------------------------------------------------

ZeroBits(n) == [i \in 1..n |-> Zero]

SetBit(bits, k, v) == [i \in 1..Len(bits) |-> IF i = k THEN v ELSE bits[i]]

FlipBit(bits, k) == SetBit(bits, k, IF bits[k] = Zero THEN One ELSE Zero)

\* the key an honest prover supplies: the circuit's own computation for
\* (seed, path), the four CKDPriv levels applied to the master outputs
RECURSIVE DeriveFrom(_, _, _, _)
DeriveFrom(key, cc, path, k) ==
    IF k > Levels THEN key
    ELSE LET ckd == CKDPriv(key, cc, FAdd(path[k], HardenedOffset))
         IN  DeriveFrom(ckd.newKey, ckd.newChainCode, path, k + 1)

DerivedPk(seedBits, path) ==
    LET m == GetMasterKeyFromSeed(seedBits)
    IN  Ed25519PubFromSeed(DeriveFrom(m.key, m.chainCode, path, 1))

\* how many sample seeds the model draws
NumSeedSamples == 2

\* sample 1 is the all-zero seed, sample j > 1 has every j-th bit set
SeedSamples ==
    { [i \in 1..SeedBits |-> IF j > 1 /\ i % j = 1 THEN One ELSE Zero] :
        j \in 1..NumSeedSamples }

PathSamples ==
    { <<N(44), N(501), N(0), N(0)>>, <<N(44), N(501), N(0), N(1)>> }

\* indices a single path entry is changed to
IndexSamples == { N(7) }

\* seed bit positions (1-based) a perturbation flips
FlipPositions == { 1, SeedBits }

PkSamples(seedBits, path) ==
    LET good == DerivedPk(seedBits, path)
    IN  { good, FlipBit(good, 1), FlipBit(good, KeyBits) }

PkSamplesShort(seedBits, path) ==
    LET good == DerivedPk(seedBits, path)
    IN  { good, FlipBit(good, KeyBits) }

\* ------------------------------------------------------------------------
\* TwoKeysFromEd25519HD: witness generation
\* ------------------------------------------------------------------------

Path(c) == IF c = 0 THEN path0 ELSE path1
Pk(c) == IF c = 0 THEN pk0 ELSE pk1

\* component main = TwoKeysFromEd25519HD(): the inputs declared public
MainPublicInputs == <<>>

InputSignals(name) ==
    CASE name = "pk0" -> pk0
      [] name = "pk1" -> pk1
      [] name = "path0" -> path0
      [] name = "path1" -> path1
      [] name = "seed" -> seed

RECURSIVE Flatten(_)
Flatten(names) ==
    IF names = <<>> THEN <<>>
    ELSE InputSignals(Head(names)) \o Flatten(Tail(names))

\* the public-signal vector: the outputs, then the public inputs
PublicSignals(successSignal) == <<successSignal>> \o Flatten(MainPublicInputs)

\* (mutant) the second key's constraints are left out
ConstraintsHold_OnlyPk0(computed0, computed1, given0, given1) ==
    \A i \in 1..KeyBits : computed0[i] = given0[i]

\* pkgen0.pk[i] === pk0[i]; pkgen1.pk[i] === pk1[i]
ConstraintsHold(computed0, computed1, given0, given1) ==
    \A i \in 1..KeyBits : computed0[i] = given0[i] /\ computed1[i] = given1[i]

CktFresh ==
    /\ master = <<>>
    /\ chainKey = [c \in Chains |-> <<>>]
    /\ chainCode = [c \in Chains |-> <<>>]
    /\ ckdIndex = [c \in Chains |-> <<>>]
    /\ ckdData = [c \in Chains |-> <<>>]
    /\ pkgenPk = [c \in Chains |-> <<>>]
    /\ success = <<>>
    /\ publicSignals = <<>>

InitCircuit ==
    /\ seed \in SeedSamples
    /\ path0 \in PathSamples
    /\ path1 \in PathSamples
    /\ pk0 \in PkSamples(seed, path0)
    /\ pk1 \in PkSamplesShort(seed, path1)
    /\ CktFresh
    /\ pc = "run"
    /\ perturbed = FALSE
    /\ PrvIdle
    /\ RefIdle
    /\ AppIdle

\* component master = GetMasterKeyFromSeed(); master.seed[i] <== seed[i]
MasterStep ==
    /\ pc = "run"
    /\ master = <<>>
    /\ master' = GetMasterKeyFromSeed(seed)
    /\ UNCHANGED <<seed, pk0, pk1, path0, path1, chainKey, chainCode, ckdIndex,
                   ckdData, pkgenPk, pc, success, publicSignals, perturbed>>
    /\ UNCHANGED <<prvVars, refVars, appVars>>

\* (mutant) the second chain starts from the seed bits, not from the master key
ChainStartKey_FromSeed(c) ==
    IF c = 1 THEN [i \in 1..KeyBits |-> seed[i]] ELSE master.key

\* currentKey_c[i] <== master.key[i]; currentChainCode_c[i] <== master.chainCode[i]
ChainStartKey(c) == master.key
ChainStartChainCode(c) == master.chainCode

ChainStart(c) ==
    /\ pc = "run"
    /\ master # <<>>
    /\ chainKey[c] = <<>>
    /\ chainKey' = [chainKey EXCEPT ![c] = <<ChainStartKey(c)>>]
    /\ chainCode' = [chainCode EXCEPT ![c] = <<ChainStartChainCode(c)>>]
    /\ UNCHANGED <<seed, pk0, pk1, path0, path1, master, ckdIndex, ckdData,
                   pkgenPk, pc, success, publicSignals, perturbed>>
    /\ UNCHANGED <<prvVars, refVars, appVars>>

\* (mutant) the raw path entry is passed on
CkdIndexOf_Raw(c, k) == Path(c)[k + 1]

\* ckd_c_k.index <== path_c[k] + 0x80000000
CkdIndexOf(c, k) == FAdd(Path(c)[k + 1], HardenedOffset)

\* level k of chain c: component ckd_c_k = CKDPriv() and the signals it feeds
CkdStep(c) ==
    /\ pc = "run"
    /\ Len(chainKey[c]) \in 1..Levels
    /\ LET k == Len(chainKey[c]) - 1
           index == CkdIndexOf(c, k)
           ckd == CKDPriv(chainKey[c][k + 1], chainCode[c][k + 1], index)
       IN  /\ chainKey' = [chainKey EXCEPT ![c] = Append(@, ckd.newKey)]
           /\ chainCode' = [chainCode EXCEPT ![c] = Append(@, ckd.newChainCode)]
           /\ ckdIndex' = [ckdIndex EXCEPT ![c] = Append(@, index)]
           /\ ckdData' = [ckdData EXCEPT ![c] = Append(@, ckd.data)]
    /\ UNCHANGED <<seed, pk0, pk1, path0, path1, master, pkgenPk, pc, success,
                   publicSignals, perturbed>>
    /\ UNCHANGED <<prvVars, refVars, appVars>>

\* pkgen_c.seed[i] <== finalKey_c[i]
PkGenInput(c) == chainKey[c][Levels + 1]

PkGenStep(c) ==
    /\ pc = "run"
    /\ Len(chainKey[c]) = Levels + 1
    /\ pkgenPk[c] = <<>>
    /\ pkgenPk' = [pkgenPk EXCEPT ![c] = Ed25519PubFromSeed(PkGenInput(c))]
    /\ UNCHANGED <<seed, pk0, pk1, path0, path1, master, chainKey, chainCode,
                   ckdIndex, ckdData, pc, success, publicSignals, perturbed>>
    /\ UNCHANGED <<prvVars, refVars, appVars>>

\* the === constraints and signal output success <== 1
ConstrainStep ==
    /\ pc = "run"
    /\ \A c \in Chains : pkgenPk[c] # <<>>
    /\ IF ConstraintsHold(pkgenPk[0], pkgenPk[1], pk0, pk1)
       THEN /\ pc' = "done"
            /\ success' = One
            /\ publicSignals' = PublicSignals(One)
       ELSE /\ pc' = "failed"
            /\ UNCHANGED <<success, publicSignals>>
    /\ UNCHANGED <<seed, pk0, pk1, path0, path1, master, chainKey, chainCode,
                   ckdIndex, ckdData, pkgenPk, perturbed>>
    /\ UNCHANGED <<prvVars, refVars, appVars>>

CktReset ==
    /\ master' = <<>>
    /\ chainKey' = [c \in Chains |-> <<>>]
    /\ chainCode' = [c \in Chains |-> <<>>]
    /\ ckdIndex' = [c \in Chains |-> <<>>]
    /\ ckdData' = [c \in Chains |-> <<>>]
    /\ pkgenPk' = [c \in Chains |-> <<>>]
    /\ success' = <<>>
    /\ publicSignals' = <<>>
    /\ pc' = "run"

\* a second witness generation: the satisfying assignment's inputs with one
\* seed bit flipped, the public keys and paths unchanged
PerturbSeed ==
    /\ pc = "done"
    /\ ~perturbed
    /\ \E k \in FlipPositions : seed' = FlipBit(seed, k)
    /\ perturbed' = TRUE
    /\ CktReset
    /\ UNCHANGED <<pk0, pk1, path0, path1>>
    /\ UNCHANGED <<prvVars, refVars, appVars>>

\* ... or with one path index changed
PerturbPath ==
    /\ pc = "done"
    /\ ~perturbed
    /\ \E c \in Chains, k \in 1..Levels, v \in IndexSamples :
          /\ Path(c)[k] # v
          /\ path0' = IF c = 0 THEN [path0 EXCEPT ![k] = v] ELSE path0
          /\ path1' = IF c = 1 THEN [path1 EXCEPT ![k] = v] ELSE path1
    /\ perturbed' = TRUE
    /\ CktReset
    /\ UNCHANGED <<seed, pk0, pk1>>
    /\ UNCHANGED <<prvVars, refVars, appVars>>

NextCircuit ==
    \/ MasterStep
    \/ \E c \in Chains : ChainStart(c)
    \/ \E c \in Chains : CkdStep(c)
    \/ \E c \in Chains : PkGenStep(c)
    \/ ConstrainStep
    \/ PerturbSeed
    \/ PerturbPath

SpecCircuit == InitCircuit /\ [][NextCircuit]_vars


\* ------------------------------------------------------------------------
\* Prove2PubKeys (the Poseidon circuit generateProof feeds): templates
\* ------------------------------------------------------------------------

\* a natural read into the field, as the witness calculator and circomlibjs
\* read their inputs
RECURSIVE FNorm(_)
FNorm(a) == IF Less(a, FieldPrime) THEN a ELSE FNorm(Sub(a, FieldPrime))

PoseidonInputs(xs) == [i \in 1..Len(xs) |-> FNorm(xs[i])]

\* KeyDerive: private_key[i] <== hasher.out + i
KeyDerive(hasherOut) == [i \in 1..8 |-> FAdd(hasherOut, N(i - 1))]

\* Ed25519KeyGen: public_key[i] <== key_hasher.out + i
Ed25519KeyGen(keyHasherOut) == [i \in 1..4 |-> FAdd(keyHasherOut, N(i - 1))]

\* circomlib IsEqual
IsEqual(a, b) == IF a = b THEN One ELSE Zero

\* AND: out <== a * b, on the operands the circuit feeds it (a is the output
\* of an IsEqual or of an AND, so 0 or 1)
AND(a, b) == CASE a = Zero -> Zero [] a = One -> b

\* (mutant) only the second key is compared
Prove2PubKeysValid_OnlyKey2(public_key1, pubkey1, public_key2, pubkey2) ==
    IF \A i \in 1..4 : public_key2[i] = pubkey2[i] THEN One ELSE Zero

\* Prove2PubKeys: the comparison tree that produces valid
Prove2PubKeysValid(public_key1, pubkey1, public_key2, pubkey2) ==
    LET eq1 == [i \in 1..4 |-> IsEqual(public_key1[i], pubkey1[i])]
        eq2 == [i \in 1..4 |-> IsEqual(public_key2[i], pubkey2[i])]
        and1 == AND(eq1[1], eq1[2])
        and2 == AND(eq1[3], eq1[4])
        final_and == AND(and1, and2)
        and3 == AND(eq2[1], eq2[2])
        and4 == AND(eq2[3], eq2[4])
        final_and2 == AND(and3, and4)
        final_check == AND(final_and, final_and2)
    IN  final_check

\* component main = Prove2PubKeys(): the inputs declared public
Prove2PubKeysPublicInputs == <<>>

\* ------------------------------------------------------------------------
\* keyDerivation.ts and the repository's other copy of it (unnamed/part_002)
\* ------------------------------------------------------------------------

\* part_002 derivePrivateKey: F.add(hashResult, F.e(i)), then F.toString
FieldDerivePrivateKeyOf(hashResult) == [i \in 1..8 |-> FAdd(hashResult, N(i - 1))]

\* part_002 generatePublicKey: F.add(hashResult, F.e(i)), then F.toString
FieldGeneratePublicKeyOf(hashResult) == [i \in 1..4 |-> FAdd(hashResult, N(i - 1))]

\* a * 2^n in the field
RECURSIVE DoubleTimes(_, _)
DoubleTimes(a, n) ==
    IF n = 0 \/ Len(a) = 0 THEN a
    ELSE DoubleTimes(FAdd(a, a), n - 1)

\* a * 2^(16 * m) in the field
RECURSIVE ShiftLimbs(_, _)
ShiftLimbs(a, m) ==
    IF m = 0 \/ Len(a) = 0 THEN a
    ELSE ShiftLimbs(DoubleTimes(a, 16), m - 1)

ByteSwap(limb) == (limb % 256) * 256 + (limb \div 256)

\* keyDerivation.ts: BigInt("0x" + Array.from(hash).map(b => hex(b)).join("")): the 32
\* bytes of the element circomlibjs returns (the value times 2^256 in the
\* field, least significant byte first) read as one big-endian number
HashBytesAsBigInt(hash) ==
    LET m == ShiftLimbs(hash, 16)
    IN  Norm([k \in 1..16 |-> ByteSwap(Limb(m, 17 - k))])

\* keyDerivation.ts derivePrivateKey: hashBigInt + BigInt(i)
DerivePrivateKeyOf(hash) ==
    LET hashBigInt == HashBytesAsBigInt(hash)
    IN  [i \in 1..8 |-> Add(hashBigInt, N(i - 1))]

\* keyDerivation.ts generatePublicKey: hashBigInt + BigInt(i)
GeneratePublicKeyOf(hash) ==
    LET hashBigInt == HashBytesAsBigInt(hash)
    IN  [i \in 1..4 |-> Add(hashBigInt, N(i - 1))]

\* x.toString() of a bigint or an integral number: its decimal string
DecString(x) == [dec |-> x]
DecStrings(xs) == [i \in 1..Len(xs) |-> DecString(xs[i])]

\* the witness calculator reads a decimal string as a signal
ParseSignal(str) == FNorm(str.dec)
ParseSignals(strs) == [i \in 1..Len(strs) |-> ParseSignal(strs[i])]

\* ------------------------------------------------------------------------
\* deriveTwoPublicKeys, generateProof: the inputs the model draws
\* ------------------------------------------------------------------------

\* stringToSeed gives 8 chunks of 64 bits; sample 1 is the all-zero seed
SeedChunkSamples ==
    { [i \in 1..8 |-> IF j = 1 THEN Zero ELSE <<i, j, 0, 2^15 + i>>] :
        j \in 1..NumSeedSamples }

\* values Poseidon returns: an ordinary one and the largest field element
HashSamples == { <<4660, 22136, 9029>>, Sub(FieldPrime, One) }

Implementations == { "keyDerivation.ts", "part_002" }

WellFormedArgs == [seed : SeedChunkSamples, path1 : PathSamples, path2 : PathSamples]

\* calls whose seed or paths have one entry too many or too few (the
\* parameters are typed bigint[] and number[], of any length)
MalformedArgs ==
    LET zeroSeed == [i \in 1..8 |-> Zero]
        p1 == <<N(44), N(501), N(0), N(0)>>
        p2 == <<N(44), N(501), N(0), N(1)>>
    IN  { [seed |-> Append(zeroSeed, N(9)), path1 |-> p1, path2 |-> p2],
          [seed |-> SubSeq(zeroSeed, 1, 7), path1 |-> p1, path2 |-> p2],
          [seed |-> zeroSeed, path1 |-> Append(p1, N(5)), path2 |-> p2],
          [seed |-> zeroSeed, path1 |-> p1, path2 |-> SubSeq(p2, 1, 3)] }

\* how generateProof's caller picks pubkey1 / pubkey2
SuppliedKinds == { "derived", "swapped", "tampered" }

SuppliedKeys(kind) ==
    CASE kind = "derived" -> <<derived.pubkey[1], derived.pubkey[2]>>
      [] kind = "swapped" -> <<derived.pubkey[2], derived.pubkey[1]>>
      [] kind = "tampered" ->
            <<[derived.pubkey[1] EXCEPT ![1] = Add(@, One)], derived.pubkey[2]>>

\* ------------------------------------------------------------------------
\* deriveTwoPublicKeys, generateProof: steps
\* ------------------------------------------------------------------------

\* poseidon(xs) returns h: the value the table holds for xs, or any value
\* for inputs not hashed before
PoseidonReturns(xs, h) == xs \in DOMAIN oracle => oracle[xs] = h

Recorded(xs, h) == IF xs \in DOMAIN oracle THEN oracle ELSE (xs :> h) @@ oracle

LogLine(fn, text, shape, data) == [fn |-> fn, text |-> text, shape |-> shape, data |-> data]

ArgPath(n) == IF n = 1 THEN args.path1 ELSE args.path2

InitProver ==
    /\ args \in WellFormedArgs \cup MalformedArgs
    /\ impl \in Implementations
    /\ oracle = <<>>
    /\ derived = [privateKey |-> <<<<>>, <<>>>>, pubkey |-> <<<<>>, <<>>>>]
    /\ input = <<>>
    /\ wit = [private_key |-> <<<<>>, <<>>>>, public_key |-> <<<<>>, <<>>>>, valid |-> <<>>]
    /\ result = <<>>
    /\ log = <<>>
    /\ step = "derivePrivateKey1"
    /\ fullProveCalls = 0
    /\ thrown = <<>>
    /\ CktIdle
    /\ RefIdle
    /\ AppIdle

\* derivePrivateKey reads seed[0..7] and path[0..3]: an entry that is not
\* there is undefined
EntryMissing(n) == Len(args.seed) < 8 \/ Len(ArgPath(n)) < 4

\* derivePrivateKey(seed, path_n) with an undefined entry: BigInt(undefined),
\* or the field conversion of an undefined Poseidon input, throws
DerivePrivateKeyThrow(n) ==
    /\ step = (IF n = 1 THEN "derivePrivateKey1" ELSE "derivePrivateKey2")
    /\ EntryMissing(n)
    /\ step' = "deriveThrew"
    /\ UNCHANGED <<args, impl, oracle, derived, input, wit, result, log>>
    /\ UNCHANGED <<fullProveCalls, thrown>>
    /\ UNCHANGED <<cktVars, refVars, appVars>>

\* derivePrivateKey(seed, path_n), called by deriveTwoPublicKeys
DerivePrivateKey(n) ==
    /\ step = (IF n = 1 THEN "derivePrivateKey1" ELSE "derivePrivateKey2")
    /\ ~EntryMissing(n)
    /\ LET inputs == SubSeq(args.seed, 1, 8) \o SubSeq(ArgPath(n), 1, 4)
           xs == PoseidonInputs(inputs)
       IN  \E h \in HashSamples :
              /\ PoseidonReturns(xs, h)
              /\ oracle' = Recorded(xs, h)
              /\ derived' = [derived EXCEPT !.privateKey[n] =
                                IF impl = "keyDerivation.ts"
                                THEN DerivePrivateKeyOf(h)
                                ELSE FieldDerivePrivateKeyOf(h)]
              /\ log' = IF impl = "part_002"
                        THEN log \o
                             << LogLine("derivePrivateKey", "TypeScript Poseidon inputs:",
                                        "values", DecStrings(inputs)),
                                LogLine("derivePrivateKey", "TypeScript Poseidon hash result:",
                                        "values", <<DecString(h)>>) >>
                        ELSE log
    /\ step' = (IF n = 1 THEN "derivePrivateKey2" ELSE "generatePublicKey1")
    /\ UNCHANGED <<args, impl, input, wit, result>>
    /\ UNCHANGED <<fullProveCalls, thrown>>
    /\ UNCHANGED <<cktVars, refVars, appVars>>

\* generatePublicKey(privateKey_n), called by deriveTwoPublicKeys
GeneratePublicKey(n) ==
    /\ step = (IF n = 1 THEN "generatePublicKey1" ELSE "generatePublicKey2")
    /\ LET privateKey == derived.privateKey[n]
           xs == PoseidonInputs(privateKey)
       IN  \E h \in HashSamples :
              /\ PoseidonReturns(xs, h)
              /\ oracle' = Recorded(xs, h)
              /\ derived' = [derived EXCEPT !.pubkey[n] =
                                IF impl = "keyDerivation.ts"
                                THEN GeneratePublicKeyOf(h)
                                ELSE FieldGeneratePublicKeyOf(h)]
              /\ log' = IF impl = "part_002"
                        THEN log \o
                             << LogLine("generatePublicKey", "TypeScript private key for hashing:",
                                        "values", DecStrings(privateKey)),
                                LogLine("generatePublicKey", "TypeScript key hasher result:",
                                        "values", <<DecString(h)>>) >>
                        ELSE log
    /\ step' = (IF n = 1 THEN "generatePublicKey2" ELSE "derived")
    /\ UNCHANGED <<args, impl, input, wit, result>>
    /\ UNCHANGED <<fullProveCalls, thrown>>
    /\ UNCHANGED <<cktVars, refVars, appVars>>

\* generateProof(seed, pubkey1, pubkey2, path1, path2) up to the call of
\* snarkjs.groth16.fullProve
GenerateProofInput(pubkey1, pubkey2) ==
    [ seed |-> DecStrings(args.seed),
      pubkey1 |-> DecStrings(pubkey1),
      pubkey2 |-> DecStrings(pubkey2),
      path1 |-> DecStrings(args.path1),
      path2 |-> DecStrings(args.path2) ]

GenerateProofCall ==
    /\ step = "derived"
    /\ \E kind \in SuppliedKinds :
          LET keys == SuppliedKeys(kind)
              in == GenerateProofInput(keys[1], keys[2])
          IN  /\ input' = in
              /\ log' = Append(log, LogLine("generateProof",
                                            "Generating real ZK proof with input:",
                                            "input", in))
    /\ fullProveCalls' = fullProveCalls + 1
    /\ step' = "witnessDerive1"
    /\ UNCHANGED <<args, impl, oracle, derived, wit, result, thrown>>
    /\ UNCHANGED <<cktVars, refVars, appVars>>

InputPath(n) == IF n = 1 THEN input.path1 ELSE input.path2
InputPubkey(n) == IF n = 1 THEN input.pubkey1 ELSE input.pubkey2

\* the witness calculator takes an input signal only with as many values as
\* the circuit declares for it
InputWellSized ==
    /\ Len(input.seed) = 8
    /\ Len(input.pubkey1) = 4 /\ Len(input.pubkey2) = 4
    /\ Len(input.path1) = 4 /\ Len(input.path2) = 4

\* fullProve, witness: component derive_n = KeyDerive()
WitnessDerive(n) ==
    /\ step = (IF n = 1 THEN "witnessDerive1" ELSE "witnessDerive2")
    /\ InputWellSized
    /\ LET xs == ParseSignals(input.seed) \o ParseSignals(InputPath(n))
       IN  \E h \in HashSamples :
              /\ PoseidonReturns(xs, h)
              /\ oracle' = Recorded(xs, h)
              /\ wit' = [wit EXCEPT !.private_key[n] = KeyDerive(h)]
    /\ step' = (IF n = 1 THEN "witnessDerive2" ELSE "witnessKeygen1")
    /\ UNCHANGED <<args, impl, derived, input, result, log>>
    /\ UNCHANGED <<fullProveCalls, thrown>>
    /\ UNCHANGED <<cktVars, refVars, appVars>>

\* fullProve, witness: component keygen_n = Ed25519KeyGen()
WitnessKeygen(n) ==
    /\ step = (IF n = 1 THEN "witnessKeygen1" ELSE "witnessKeygen2")
    /\ LET xs == wit.private_key[n]
       IN  \E h \in HashSamples :
              /\ PoseidonReturns(xs, h)
              /\ oracle' = Recorded(xs, h)
              /\ wit' = [wit EXCEPT !.public_key[n] = Ed25519KeyGen(h)]
    /\ step' = (IF n = 1 THEN "witnessKeygen2" ELSE "witnessValid")
    /\ UNCHANGED <<args, impl, derived, input, result, log>>
    /\ UNCHANGED <<fullProveCalls, thrown>>
    /\ UNCHANGED <<cktVars, refVars, appVars>>

\* the public-signal vector: the outputs, then the public inputs
ProverPublicSignals(valid) ==
    LET RECURSIVE Pub(_)
        Pub(names) == IF names = <<>> THEN <<>>
                      ELSE ParseSignals(input[Head(names)]) \o Pub(Tail(names))
    IN  <<valid>> \o Pub(Prove2PubKeysPublicInputs)

\* fullProve: valid <== final_check.out, the proof, and generateProof's return
FullProveReturn ==
    /\ step = "witnessValid"
    /\ LET valid == Prove2PubKeysValid(wit.public_key[1], ParseSignals(input.pubkey1),
                                       wit.public_key[2], ParseSignals(input.pubkey2))
           publicSignalsOut == ProverPublicSignals(valid)
       IN  /\ wit' = [wit EXCEPT !.valid = valid]
           /\ result' = [proof |-> [protocol |-> "groth16"],
                         publicSignals |-> publicSignalsOut]
           /\ log' = log \o
                << LogLine("generateProof", "Generated real ZK proof successfully", "none", <<>>),
                   LogLine("generateProof", "Proof structure:", "keys", <<"protocol">>),
                   LogLine("generateProof", "Public signals:", "values",
                           DecStrings(publicSignalsOut)) >>
    /\ step' = "returned"
    /\ UNCHANGED <<args, impl, oracle, derived, input>>
    /\ UNCHANGED <<fullProveCalls, thrown>>
    /\ UNCHANGED <<cktVars, refVars, appVars>>

\* what snarkjs.groth16.fullProve rejects with: the wasm or zkey file cannot
\* be read, or the witness calculator refuses the input
BackendErrors == { "ENOENT: no such file or directory", "Error in witness calculation" }

Rethrown_Wrapped(error) == "Error: proof generation failed"

\* catch (error) { console.error(...); throw error; }
Rethrown(error) == error

\* fullProve rejects: generateProof logs the error and rethrows it
FullProveThrow ==
    /\ step = "witnessDerive1"
    /\ \E error \in BackendErrors :
          /\ log' = Append(log, LogLine("generateProof", "Error generating proof:",
                                        "error", <<error>>))
          /\ thrown' = [by |-> "fullProve", error |-> error, rethrown |-> Rethrown(error)]
    /\ step' = "threw"
    /\ UNCHANGED <<args, impl, oracle, derived, input, wit, result, fullProveCalls>>
    /\ UNCHANGED <<cktVars, refVars, appVars>>

NextProver ==
    \/ \E n \in 1..2 : DerivePrivateKeyThrow(n)
    \/ \E n \in 1..2 : DerivePrivateKey(n)
    \/ \E n \in 1..2 : GeneratePublicKey(n)
    \/ GenerateProofCall
    \/ \E n \in 1..2 : WitnessDerive(n)
    \/ \E n \in 1..2 : WitnessKeygen(n)
    \/ FullProveReturn
    \/ FullProveThrow

SpecProver == InitProver /\ [][NextProver]_vars

\* ------------------------------------------------------------------------
\* Claims about TwoKeysFromEd25519HD (checked under SpecCircuit)
\* ------------------------------------------------------------------------

Evaluated == pc \in {"done", "failed"}

\* C1: every satisfying assignment has pk0 equal, in all 256 positions, to
\* the key computed from the path0 chain and pk1 to the key computed from the
\* path1 chain; when a supplied key differs from the computed one in any
\* position the constraints are not satisfied.
C1_PkBoundToComputed ==
    Evaluated =>
        /\ \A c \in Chains : pkgenPk[c] = Ed25519PubFromSeed(chainKey[c][Levels + 1])
        /\ pc = "done" =>
              \A i \in 1..KeyBits : pk0[i] = pkgenPk[0][i] /\ pk1[i] = pkgenPk[1][i]
        /\ (\E i \in 1..KeyBits : pk0[i] # pkgenPk[0][i] \/ pk1[i] # pkgenPk[1][i])
              => pc = "failed"

C1_Witness ==
    /\ pc = "done"
    /\ pk0 = DerivedPk(seed, path0)
    /\ pk1 = DerivedPk(seed, path1)

\* C2: the public-signal vector a proof is verified against carries pk0, pk1,
\* path0 and path1, in that order (after the circuit's outputs).
C2_PublicSignalsCarryKeysAndPaths ==
    pc = "done" =>
        LET pub == pk0 \o pk1 \o path0 \o path1
            n == Len(publicSignals)
        IN  /\ n >= Len(pub)
            /\ SubSeq(publicSignals, n - Len(pub) + 1, n) = pub

\* C3: an assignment obtained from a satisfying one by flipping one seed bit
\* or changing one path index, the public keys unchanged, does not satisfy
\* the constraints.
C3_PerturbedUnsatisfiable == perturbed => pc # "done"

\* C5: the level-0 key and chain code of both chains are the outputs of the
\* one master derivation of the seed, which are not reassigned once produced
\* in a witness generation.
C5_SharedMasterState ==
    /\ master # <<>> => master = GetMasterKeyFromSeed(seed)
    /\ \A c \in Chains :
          chainKey[c] # <<>> =>
              /\ chainKey[c][1] = master.key
              /\ chainCode[c][1] = master.chainCode
    /\ (chainKey[0] # <<>> /\ chainKey[1] # <<>>) =>
          /\ chainKey[0][1] = chainKey[1][1]
          /\ chainCode[0][1] = chainCode[1][1]

C5_SharedMaster ==
    /\ []C5_SharedMasterState
    /\ [][(master # <<>> /\ perturbed' = perturbed) => master' = master]_vars

C5_Witness ==
    /\ pc = "done"
    /\ Len(chainKey[0]) = Levels + 1
    /\ Len(chainKey[1]) = Levels + 1

\* C6: for one seed the key computed for path [44,501,0,0] differs from the
\* key computed for path [44,501,0,1].
C6_PathSensitivity ==
    ( /\ pkgenPk[0] # <<>> /\ pkgenPk[1] # <<>>
      /\ path0 = <<N(44), N(501), N(0), N(0)>>
      /\ path1 = <<N(44), N(501), N(0), N(1)>> )
    => pkgenPk[0] # pkgenPk[1]

KeySamples ==
    { ZeroBits(KeyBits),
      [i \in 1..KeyBits |-> One],
      [i \in 1..KeyBits |-> IF i % 2 = 1 THEN One ELSE Zero] }

\* C8: the value bound to the supplied public key is not the level-4 private
\* key itself: some private key (the chain's own, or a sample one) is mapped
\* by Ed25519PubFromSeed to an output different from it.
C8_PubKeyIsNotPrivKey ==
    \A c \in Chains :
        pkgenPk[c] # <<>> =>
            /\ pkgenPk[c] # PkGenInput(c)
            /\ \E k \in KeySamples \cup {PkGenInput(c)} : Ed25519PubFromSeed(k) # k


\* C12: each of the eight CKDPriv components receives as index the path
\* entry of its own chain and level plus 2^31, never the raw entry.
C12_HardenedIndexAlways ==
    \A c \in Chains :
        /\ Len(ckdIndex[c]) = Len(ckdData[c])
        /\ \A k \in 1..Len(ckdIndex[c]) :
              /\ ckdIndex[c][k] = Add(Path(c)[k], HardenedOffset)
              /\ ckdIndex[c][k] # Path(c)[k]
              /\ ~Less(ckdIndex[c][k], HardenedOffset)
              /\ ckdData[c][k][SeedBits] = ckdIndex[c][k]

C12_Witness ==
    /\ pc = "done"
    /\ path0 # path1
    /\ \A c \in Chains : Len(ckdIndex[c]) = Levels

C14_DisjointHalves ==
    /\ master # <<>> =>
          /\ Len(HmacSha256(13, 37, MasterHmacKey, seed)) = 8 * 64
          /\ master.key # master.chainCode
    /\ \A c \in Chains :
          \A k \in 2..Len(chainKey[c]) : chainKey[c][k] # chainCode[c][k]

\* C15: the message of a CKDPriv step is 37 bytes: a zero byte, the parent
\* key, and the 32 bits of the hardened index, each 0 or 1, the top one 1.
C15_CkdMessageLayout ==
    \A c \in Chains :
        \A k \in 1..Len(ckdData[c]) :
            LET data == ckdData[c][k]
            IN  /\ Len(data) = 8 * 37
                /\ \A i \in 1..8 : data[i] = Zero
                /\ \A i \in 1..KeyBits : data[8 + i] = chainKey[c][k][i]
                /\ \A i \in 1..32 : data[8 + KeyBits + i] \in {Zero, One}
                /\ data[8 + KeyBits + 1] = One

\* bits b of one byte, least significant first, XORed onto eight key bits
XorByte(bits, from, b) ==
    [i \in 1..8 |-> IF bits[from + i] = N(b[i]) THEN Zero ELSE One]

\* a 256-bit key XORed byte-wise with the byte whose bits are b
XorPad(bits, b) ==
    [i \in 1..KeyBits |-> XorByte(bits, 8 * ((i - 1) \div 8), b)[((i - 1) % 8) + 1]]

Ipad == <<0, 1, 1, 0, 1, 1, 0, 0>>
Opad == <<0, 0, 1, 1, 1, 0, 1, 0>>

\* C16: in the HMAC gadget the inner hash input begins with the zero-padded
\* key XORed byte-wise with 0x36 and the outer one with the key XORed with
\* 0x5c; the two padded keys and the raw key differ from one another, and
\* the output depends on the message.
C16_HmacPads ==
    master # <<>> =>
        LET raw == [i \in 1..KeyBits |->
                       IF i <= 8 * MasterKeyBytes THEN MasterHmacKey[i] ELSE Zero]
            inner == HmacInnerKey(MasterKeyBytes, MasterHmacKey)
            outer == HmacOuterKey(MasterKeyBytes, MasterHmacKey)
        IN  /\ inner = XorPad(raw, Ipad)
            /\ outer = XorPad(raw, Opad)
            /\ inner # outer /\ inner # raw /\ outer # raw
            /\ \E s \in SeedSamples :
                   HmacSha256(MasterKeyBytes, 37, MasterHmacKey, s)
                       # HmacSha256(MasterKeyBytes, 37, MasterHmacKey, seed)

\* the byte held by eight key bits, read least significant bit first or
\* most significant bit first
RECURSIVE ByteValue(_, _, _, _)
ByteValue(bits, from, i, lsbFirst) ==
    IF i > 8 THEN 0
    ELSE (IF bits[from + i] = One THEN 2 ^ (IF lsbFirst THEN i - 1 ELSE 8 - i) ELSE 0)
         + ByteValue(bits, from, i + 1, lsbFirst)

DecodedKey(lsbFirst) ==
    [j \in 1..MasterKeyBytes |-> ByteValue(MasterHmacKey, 8 * (j - 1), 1, lsbFirst)]

\* "ed25519 seed" in ASCII
Ed25519SeedAscii == <<101, 100, 50, 53, 53, 49, 57, 32, 115, 101, 101, 100>>

\* C17: the constant HMAC key of the master derivation decodes, byte by byte
\* in one bit order, to the characters of "ed25519 seed", and the declared
\* key length equals the length of that string.
C17_MasterKeyIsEd25519Seed ==
    master # <<>> =>
        /\ \E lsbFirst \in BOOLEAN :
               SubSeq(DecodedKey(lsbFirst), 1, Len(Ed25519SeedAscii)) = Ed25519SeedAscii
        /\ MasterKeyBytes = Len(Ed25519SeedAscii)

\* C18: the seed input of the main circuit is 64 bytes (512 bits), all of
\* which are the message of the master derivation's HMAC.
C18_SeedIs64Bytes ==
    /\ Len(seed) = 8 * 64
    /\ SeedBits = 8 * 64

\* C19: the scalar the public key is produced from, out of the level-4
\* private key, has bits 0, 1 and 2 equal to 0, bit 254 equal to 1 and bit
\* 255 equal to 0, for the chain's key and for every sample key.
C19_ScalarClamped ==
    \A c \in Chains :
        pkgenPk[c] # <<>> =>
            \A k \in KeySamples \cup {PkGenInput(c)} :
                LET scalar == SimpleSha256(32, k)
                IN  /\ scalar[1] = Zero /\ scalar[2] = Zero /\ scalar[3] = Zero
                    /\ scalar[255] = One
                    /\ scalar[256] = Zero

\* ------------------------------------------------------------------------
\* Claims about deriveTwoPublicKeys / generateProof / Prove2PubKeys
\* (checked under SpecProver)
\* ------------------------------------------------------------------------

SuppliedMatchesComputed ==
    \A n \in 1..2 : ParseSignals(InputPubkey(n)) = wit.public_key[n]

\* C4: when a public key supplied to generateProof differs from the key the
\* circuit derives from the seed and its path, fullProve produces no witness
\* and no proof; no witness it produces has valid = 0.
C4_NoProofForWrongKey ==
    step = "returned" =>
        /\ SuppliedMatchesComputed
        /\ wit.valid # Zero
        /\ result.publicSignals[1] # Zero

SeedInLine(line) ==
    /\ line.shape = "input"
    /\ "seed" \in DOMAIN line.data
    /\ line.data.seed = DecStrings(args.seed)

\* C7: nothing generateProof makes observable carries the seed: the seed is
\* not among the public signals and no line generateProof writes to the log
\* holds the seed's values.
C7_SeedNotObservable ==
    /\ \A k \in 1..Len(Prove2PubKeysPublicInputs) :
           Prove2PubKeysPublicInputs[k] # "seed"
    /\ \A k \in 1..Len(log) :
           log[k].fn = "generateProof" => ~SeedInLine(log[k])

\* C9: the public keys deriveTwoPublicKeys returns equal, limb for limb, the
\* public_key signals the circuit computes from the same seed and paths, and
\* feeding them to the circuit gives valid = 1.
C9_DerivationMatchesCircuit ==
    /\ (wit.public_key[1] # <<>> /\ wit.public_key[2] # <<>>) =>
           \A n \in 1..2 : derived.pubkey[n] = wit.public_key[n]
    /\ ( /\ step = "returned"
         /\ input.pubkey1 = DecStrings(derived.pubkey[1])
         /\ input.pubkey2 = DecStrings(derived.pubkey[2]) ) =>
           wit.valid = One

\* C20: valid is 1 exactly when all four limbs of pubkey1 equal the key the
\* circuit generates from (seed, path1) and all four limbs of pubkey2 equal
\* the key it generates from (seed, path2), and 0 otherwise.
C20_ValidIffBothMatch ==
    step = "returned" =>
        /\ \A n \in 1..2 :
              /\ wit.private_key[n] =
                     KeyDerive(oracle[ParseSignals(input.seed) \o ParseSignals(InputPath(n))])
              /\ wit.public_key[n] = Ed25519KeyGen(oracle[wit.private_key[n]])
        /\ wit.valid \in {Zero, One}
        /\ (wit.valid = One) <=>
              \A n \in 1..2 : \A i \in 1..4 :
                  ParseSignal(InputPubkey(n)[i]) = wit.public_key[n][i]
        /\ result.publicSignals = <<wit.valid>>

C20_Witness ==
    /\ step = "returned"
    /\ wit.valid = One
    /\ args.path1 # args.path2

ArgsMalformed ==
    Len(args.seed) # 8 \/ Len(args.path1) # 4 \/ Len(args.path2) # 4

\* generateProof has handed its input to snarkjs.groth16.fullProve
BackendInvoked ==
    step \in { "witnessDerive1", "witnessDerive2", "witnessKeygen1",
               "witnessKeygen2", "witnessValid", "returned", "threw" }

\* C11: called with a seed that has not 8 chunks or a path that has not 4
\* entries, deriveTwoPublicKeys returns no keys and generateProof does not
\* reach the proving backend.
C11_MalformedRejectedEarly ==
    ArgsMalformed => (step # "derived" /\ ~BackendInvoked)

\* ------------------------------------------------------------------------
\* actual_solana.ts: the reference SLIP-0010 derivation
\* ------------------------------------------------------------------------

\* longest written path the model draws
MaxPathLen == 2

\* x >>> 0
ToUint32(x) == Norm(<<Limb(x, 1), Limb(x, 2)>>)

\* (x & 0x80000000) === 0
HardenedBitClear(x) == Limb(ToUint32(x), 2) < 2^15

\* ser32: writeUInt32BE(i >>> 0), the four bytes
ser32(i) ==
    LET u == ToUint32(i)
    IN  << Limb(u, 2) \div 256, Limb(u, 2) % 256,
           Limb(u, 1) \div 256, Limb(u, 1) % 256 >>

\* HMAC-SHA512 as a term over its key and data
hmacSha512(key, data) == [fn |-> "hmacSha512", key |-> key, data |-> data]

\* I.slice(0, 32), I.slice(32, 64)
Slice(I, from, to) == [of |-> I, from |-> from, to |-> to]

getMasterKeyFromSeed(seedBuf) ==
    LET I == hmacSha512("ed25519 seed", seedBuf)
    IN  [key |-> Slice(I, 0, 32), chainCode |-> Slice(I, 32, 64)]

deriveChild(key, chain, index) ==
    LET data == [zero |-> 0, key |-> key, ser32 |-> ser32(index)]
        I == hmacSha512(chain, data)
    IN  [key |-> Slice(I, 0, 32), chainCode |-> Slice(I, 32, 64)]

\* one part of a written path: what parseInt gives for its digits (nan when
\* it gives NaN), and whether it ends in an apostrophe
PartSamples ==
    { [nan |-> FALSE, num |-> v, hardened |-> h] :
        v \in { Zero, N(44), <<65535, 32767>>, <<0, 32768>>, <<5, 0, 1>> },
        h \in BOOLEAN }
    \cup { [nan |-> TRUE, num |-> Zero, hardened |-> TRUE] }

WrittenPaths ==
    { [prefix |-> b, parts |-> ps] :
        b \in BOOLEAN,
        ps \in UNION { [1..n -> PartSamples] : n \in 1..MaxPathLen } }

\* hardened ? (idx + 0x80000000) >>> 0 : idx >>> 0
ParsePart(p) ==
    IF p.hardened THEN ToUint32(Add(p.num, HardenedOffset)) ELSE ToUint32(p.num)

RefSeed == "seed"

InitRef ==
    /\ refPath \in WrittenPaths
    /\ indices = <<>>
    /\ refPos = 0
    /\ refKey = <<>>
    /\ refChain = <<>>
    /\ refTrace = <<>>
    /\ refPc = "parsePath"
    /\ CktIdle
    /\ PrvIdle
    /\ AppIdle

\* derivePath: const indices = parsePath(path)
ParsePath ==
    /\ refPc = "parsePath"
    /\ IF ~refPath.prefix \/ \E k \in 1..Len(refPath.parts) : refPath.parts[k].nan
       THEN /\ refPc' = "threw"
            /\ UNCHANGED indices
       ELSE /\ indices' = [k \in 1..Len(refPath.parts) |-> ParsePart(refPath.parts[k])]
            /\ refPc' = "getMasterKeyFromSeed"
    /\ UNCHANGED <<refPath, refPos, refKey, refChain, refTrace>>
    /\ UNCHANGED <<cktVars, prvVars, appVars>>

\* derivePath: let { key, chainCode } = getMasterKeyFromSeed(seed)
DerivePathMaster ==
    /\ refPc = "getMasterKeyFromSeed"
    /\ LET m == getMasterKeyFromSeed(RefSeed)
       IN  /\ refKey' = m.key
           /\ refChain' = m.chainCode
    /\ refTrace' = Append(refTrace, [fn |-> "getMasterKeyFromSeed", index |-> Zero])
    /\ refPos' = 1
    /\ refPc' = "loop"
    /\ UNCHANGED <<refPath, indices>>
    /\ UNCHANGED <<cktVars, prvVars, appVars>>

\* derivePath: one turn of for (const idx of indices)
DerivePathLoop ==
    /\ refPc = "loop"
    /\ refPos <= Len(indices)
    /\ LET idx == indices[refPos]
       IN  IF HardenedBitClear(idx)
           THEN /\ refPc' = "threw"
                /\ UNCHANGED <<refPos, refKey, refChain, refTrace>>
           ELSE LET c == deriveChild(refKey, refChain, idx)
                IN  /\ refKey' = c.key
                    /\ refChain' = c.chainCode
                    /\ refTrace' = Append(refTrace, [fn |-> "deriveChild", index |-> idx])
                    /\ refPos' = refPos + 1
                    /\ refPc' = "loop"
    /\ UNCHANGED <<refPath, indices>>
    /\ UNCHANGED <<cktVars, prvVars, appVars>>

\* derivePath: return { priv: key, chainCode }
DerivePathReturn ==
    /\ refPc = "loop"
    /\ refPos > Len(indices)
    /\ refPc' = "returned"
    /\ UNCHANGED <<refPath, indices, refPos, refKey, refChain, refTrace>>
    /\ UNCHANGED <<cktVars, prvVars, appVars>>

NextRef ==
    \/ ParsePath
    \/ DerivePathMaster
    \/ DerivePathLoop
    \/ DerivePathReturn

SpecRef == InitRef /\ [][NextRef]_vars

\* ------------------------------------------------------------------------
\* Claims about the reference derivation (checked under SpecRef)
\* ------------------------------------------------------------------------

WrittenTooLarge(p) == ~p.nan /\ ~Less(p.num, HardenedOffset)

\* C10: a written path index of 2^31 or more makes derivePath throw before
\* any derivation step has run, and no parsed index is the written one
\* wrapped modulo 2^32.
C10_LargeIndexRejected ==
    (refPc # "parsePath" /\ refPath.prefix) =>
        /\ (\E k \in 1..Len(refPath.parts) : WrittenTooLarge(refPath.parts[k]))
              => (refPc = "threw" /\ refTrace = <<>>)
        /\ \A k \in 1..Len(indices) :
              indices[k] = IF refPath.parts[k].hardened
                           THEN Add(refPath.parts[k].num, HardenedOffset)
                           ELSE refPath.parts[k].num

Bit31Set(x) == ~HardenedBitClear(x)

\* C27: derivePath throws for every path with a part written without the
\* apostrophe, and every index handed to deriveChild has bit 31 set and is
\* the written number plus 2^31.
C27_OnlyHardenedDerived ==
    /\ (refPc = "returned") =>
          \A k \in 1..Len(refPath.parts) : refPath.parts[k].hardened
    /\ \A t \in 1..Len(refTrace) :
          refTrace[t].fn = "deriveChild" =>
              /\ Bit31Set(refTrace[t].index)
              /\ refTrace[t].index = Add(refPath.parts[t - 1].num, HardenedOffset)

\* ------------------------------------------------------------------------
\* Claims about the signals of TwoKeysFromEd25519HD (checked under
\* SpecCircuit)
\* ------------------------------------------------------------------------

IsBit(x) == x \in {Zero, One}

\* C30: in every satisfying assignment each signal that stands for a bit
\* (seed bits, pk0/pk1 bits, the 296 positions of every CKDPriv message) is
\* 0 or 1.
C30_BitSignalsAreBits ==
    (pc = "done") =>
        /\ \A i \in 1..Len(seed) : IsBit(seed[i])
        /\ \A i \in 1..Len(pk0) : IsBit(pk0[i])
        /\ \A i \in 1..Len(pk1) : IsBit(pk1[i])
        /\ \A c \in Chains :
              \A k \in 1..Len(ckdData[c]) :
                  \A i \in 1..Len(ckdData[c][k]) : IsBit(ckdData[c][k][i])

\* ------------------------------------------------------------------------
\* Claims about generateProof (checked under SpecProver)
\* ------------------------------------------------------------------------

\* C24: generateProof invokes snarkjs.groth16.fullProve once and never again;
\* when fullProve fails it rethrows that same error and returns nothing, and
\* it returns a proof with public signals only when that one call succeeded.
C24_SingleBackendCall ==
    /\ fullProveCalls = (IF BackendInvoked THEN 1 ELSE 0)
    /\ (step = "threw") =>
          /\ result = <<>>
          /\ thrown # <<>>
          /\ thrown.rethrown = thrown.error
          /\ thrown.error \in BackendErrors
    /\ (step = "returned") =>
          /\ thrown = <<>>
          /\ fullProveCalls = 1
          /\ DOMAIN result = {"proof", "publicSignals"}
    /\ (result # <<>>) => step = "returned"

C24_Witness ==
    /\ step = "threw"
    /\ fullProveCalls = 1
    /\ thrown # <<>>

\* ------------------------------------------------------------------------
\* The lazily built Poseidon singleton: concurrent callers of initPoseidon
\* ------------------------------------------------------------------------

NumCallers == 3

Callers == 1..NumCallers

\* every variable of the prover but impl, at rest
PrvIdleBut(im) ==
    /\ args = <<>> /\ impl = im /\ oracle = <<>> /\ derived = <<>>
    /\ input = <<>> /\ wit = <<>> /\ result = <<>> /\ log = <<>> /\ step = "idle"
    /\ fullProveCalls = 0 /\ thrown = <<>>

\* let poseidon = null; let F = null; and nobody has called initPoseidon
InitSingleton ==
    /\ \E im \in Implementations : PrvIdleBut(im)
    /\ poseidon = 0
    /\ F = 0
    /\ builds = 0
    /\ callers = [c \in Callers |-> [pc |-> "idle", built |-> 0, got |-> <<>>]]
    /\ calls = <<>> /\ vfy = <<>> /\ drv = <<>>
    /\ CktIdle
    /\ RefIdle

\* what initPoseidon returns: poseidon, or { poseidon, F }
InitPoseidonReturns(p, f) ==
    IF impl = "part_002" THEN [poseidon |-> p, F |-> f] ELSE [poseidon |-> p]

\* initPoseidon up to its await: if (!poseidon) the caller invokes
\* buildPoseidon() and is suspended, otherwise it returns at once
InitPoseidonCall(c) ==
    /\ callers[c].pc = "idle"
    /\ IF poseidon = 0
       THEN /\ builds' = builds + 1
            /\ callers' = [callers EXCEPT ![c] = [pc |-> "awaiting", built |-> builds + 1,
                                                  got |-> <<>>]]
       ELSE /\ callers' = [callers EXCEPT ![c] = [pc |-> "returned", built |-> 0,
                                                  got |-> InitPoseidonReturns(poseidon, F)]]
            /\ UNCHANGED builds
    /\ UNCHANGED <<poseidon, F, calls, vfy, drv>>
    /\ UNCHANGED <<cktVars, prvVars, refVars>>

\* initPoseidon from the resolution of buildPoseidon() to its return:
\* poseidon = <the instance>; F = poseidon.F (part_002); return
InitPoseidonResume(c) ==
    /\ callers[c].pc = "awaiting"
    /\ LET instance == callers[c].built
           field == IF impl = "part_002" THEN instance ELSE F
       IN  /\ poseidon' = instance
           /\ F' = field
           /\ callers' = [callers EXCEPT ![c] = [pc |-> "returned", built |-> instance,
                                                 got |-> InitPoseidonReturns(instance, field)]]
    /\ UNCHANGED <<builds, calls, vfy, drv>>
    /\ UNCHANGED <<cktVars, prvVars, refVars>>

NextSingleton ==
    \/ \E c \in Callers : InitPoseidonCall(c)
    \/ \E c \in Callers : InitPoseidonResume(c)

SpecSingleton == InitSingleton /\ [][NextSingleton]_vars

\* C29: under any interleaving of concurrent initPoseidon calls,
\* buildPoseidon is invoked at most once, and every caller that has returned
\* holds an instance that is not null, with F of that same instance.
C29_BuiltAtMostOnce ==
    /\ builds <= 1
    /\ \A c \in Callers :
          callers[c].pc = "returned" =>
              /\ callers[c].got.poseidon # 0
              /\ impl = "part_002" => callers[c].got.F = callers[c].got.poseidon

\* ------------------------------------------------------------------------
\* Calls of deriveTwoPublicKeys, one after another, on one module instance
\* ------------------------------------------------------------------------

MaxCalls == 3

\* the arguments of the calls: every sampled seed with the paths of main
CallArgs ==
    { a \in WellFormedArgs :
        a.path1 = <<N(44), N(501), N(0), N(0)>> /\ a.path2 = <<N(44), N(501), N(0), N(1)>> }

\* what the four poseidon(...) invocations of one call return when their
\* inputs have not been hashed before
FreshHashes ==
    { hs \in [1..4 -> HashSamples] : hs[1] # hs[2] /\ hs[3] # hs[4] }

PoseidonOf_Fresh(table, xs, h) == h

\* poseidonFn(inputs): the value returned for these inputs before, or, for
\* inputs not hashed before, h
PoseidonOf(table, xs, h) == IF xs \in DOMAIN table THEN table[xs] ELSE h

RecordedIn(table, xs, h) == IF xs \in DOMAIN table THEN table ELSE (xs :> h) @@ table

\* derivePrivateKey / generatePublicKey after the hash, in each copy, for
\* every hash value sampled
KeysFromHash ==
    [im \in Implementations |->
        [h \in HashSamples |->
            IF im = "keyDerivation.ts"
            THEN [privateKey |-> DerivePrivateKeyOf(h), publicKey |-> GeneratePublicKeyOf(h)]
            ELSE [privateKey |-> FieldDerivePrivateKeyOf(h),
                  publicKey |-> FieldGeneratePublicKeyOf(h)]]]

PrivateKeyFrom(im, h) == KeysFromHash[im][h].privateKey

PublicKeyFrom(im, h) == KeysFromHash[im][h].publicKey

\* deriveTwoPublicKeys(seed, path1, path2): derivePrivateKey twice, then
\* generatePublicKey twice, against the hashes recorded in table
DeriveTwoPublicKeysOf(im, a, table, hs) ==
    LET in1 == PoseidonInputs(SubSeq(a.seed, 1, 8) \o SubSeq(a.path1, 1, 4))
        h1 == PoseidonOf(table, in1, hs[1])
        t1 == RecordedIn(table, in1, h1)
        privateKey1 == PrivateKeyFrom(im, h1)
        in2 == PoseidonInputs(SubSeq(a.seed, 1, 8) \o SubSeq(a.path2, 1, 4))
        h2 == PoseidonOf(t1, in2, hs[2])
        t2 == RecordedIn(t1, in2, h2)
        privateKey2 == PrivateKeyFrom(im, h2)
        in3 == PoseidonInputs(privateKey1)
        h3 == PoseidonOf(t2, in3, hs[3])
        t3 == RecordedIn(t2, in3, h3)
        in4 == PoseidonInputs(privateKey2)
        h4 == PoseidonOf(t3, in4, hs[4])
        t4 == RecordedIn(t3, in4, h4)
    IN  [pubkey1 |-> PublicKeyFrom(im, h3), pubkey2 |-> PublicKeyFrom(im, h4), table |-> t4]

InitCalls ==
    /\ \E im \in Implementations : PrvIdleBut(im)
    /\ poseidon = 0
    /\ F = 0
    /\ builds = 0
    /\ callers = <<>>
    /\ calls = <<>>
    /\ vfy = <<>> /\ drv = <<>>
    /\ CktIdle
    /\ RefIdle

\* one call of deriveTwoPublicKeys from its first await initPoseidon() to its
\* return; the first call finds poseidon null and builds it
DeriveTwoPublicKeysCall ==
    /\ Len(calls) < MaxCalls
    /\ \E a \in CallArgs, hs \in FreshHashes :
          LET r == DeriveTwoPublicKeysOf(impl, a, oracle, hs)
          IN  /\ oracle' = r.table
              /\ calls' = Append(calls, [args |-> a, initialised |-> poseidon # 0,
                                         pubkey1 |-> r.pubkey1, pubkey2 |-> r.pubkey2])
    /\ IF poseidon = 0
       THEN /\ builds' = builds + 1
            /\ poseidon' = builds + 1
            /\ F' = IF impl = "part_002" THEN builds + 1 ELSE F
       ELSE UNCHANGED <<builds, poseidon, F>>
    /\ UNCHANGED <<args, impl, derived, input, wit, result, log, step, fullProveCalls, thrown>>
    /\ UNCHANGED <<callers, vfy, drv>>
    /\ UNCHANGED <<cktVars, refVars>>

NextCalls == DeriveTwoPublicKeysCall

SpecCalls == InitCalls /\ [][NextCalls]_vars

VkeyFiles == {"ok", "unreadable", "malformed"}

\* the proof argument: one that fullProve made for the signals, one that
\* does not verify, an object without the groth16 fields, and undefined
ProofSamples == {"valid", "forged", "malformed", "undefined"}

\* the publicSignals argument: the vector fullProve returned, that vector
\* with an entry missing, with two entries exchanged, and undefined
SignalSamples == {"matching", "wrongLength", "wrongOrder", "undefined"}

\* snarkjs.groth16.verify(vkey, publicSignals, proof): what it can do
Groth16VerifyOutcomes(proof, signals) ==
    IF proof = "valid" /\ signals = "matching" THEN {"true"}
    ELSE IF proof = "malformed" \/ signals = "wrongLength" THEN {"false", "throws"}
    ELSE {"false"}

\* the witness the witness calculator returns: the constant 1, the output of
\* main, the inputs of main, then the signals inside main and its components
WitnessOf(output, inputs, internals) == <<One, output>> \o inputs \o internals

WitnessSamples ==
    { WitnessOf(output, <<N(7), N(44)>>, <<mid, last>>) :
        output \in {Zero, One}, mid \in {Zero, One}, last \in {Zero, One, N(5)} }
    \cup { <<>> }

\* the expectedPubkey arguments of verifyKeyDerivation, against the keys the
\* derivation gives
ExpectedKinds == {"derived", "tampered", "swapped", "longer", "shorter"}

ExpectedKeys(kind, pubkey1, pubkey2) ==
    CASE kind = "derived" -> <<pubkey1, pubkey2>>
      [] kind = "tampered" -> <<pubkey1, [pubkey2 EXCEPT ![4] = Add(@, One)]>>
      [] kind = "swapped" -> <<pubkey2, pubkey1>>
      [] kind = "longer" -> <<Append(pubkey1, N(9)), pubkey2>>
      [] kind = "shorter" -> <<pubkey1, SubSeq(pubkey2, 1, 3)>>

VerifyCalls ==
    { [fn |-> "verifyProof", vkey |-> k, proof |-> p, publicSignals |-> ps] :
        k \in VkeyFiles, p \in ProofSamples, ps \in SignalSamples }
    \cup { [fn |-> "verifyWitness", witness |-> w] : w \in WitnessSamples }
    \cup { [fn |-> "verifyKeyDerivation", args |-> a, expected |-> e] :
              a \in CallArgs \cup MalformedArgs, e \in ExpectedKinds }

InitVerify ==
    /\ PrvIdle
    /\ poseidon = 0 /\ F = 0 /\ builds = 0 /\ callers = <<>> /\ calls = <<>>
    /\ \E call \in VerifyCalls :
          vfy = [call |-> call, pc |-> "called", backend |-> "notCalled",
                 caught |-> "", result |-> FALSE, thrown |-> "", compared |-> <<>>]
    /\ drv = <<>>
    /\ CktIdle
    /\ RefIdle

VerifyProofCaught_True == TRUE

\* verifyProof: catch (error) { console.error(...); return false; }
VerifyProofCaught == FALSE

VerifyFrame ==
    /\ UNCHANGED <<poseidon, F, builds, callers, calls, drv>>
    /\ UNCHANGED <<cktVars, prvVars, refVars>>

\* verifyProof: JSON.parse(fs.readFileSync(vkeyPath, "utf8"))
VerifyProofLoadKey ==
    /\ vfy.pc = "called"
    /\ vfy.call.fn = "verifyProof"
    /\ vfy' = IF vfy.call.vkey = "ok"
              THEN [vfy EXCEPT !.pc = "loaded"]
              ELSE [vfy EXCEPT !.pc = "returned", !.caught = "vkey " \o vfy.call.vkey,
                               !.result = VerifyProofCaught]
    /\ VerifyFrame

\* verifyProof: the console.log lines, which read Object.keys(proof) and
\* publicSignals.map(...)
VerifyProofLog ==
    /\ vfy.pc = "loaded"
    /\ vfy' = IF vfy.call.proof = "undefined" \/ vfy.call.publicSignals = "undefined"
              THEN [vfy EXCEPT !.pc = "returned", !.caught = "TypeError",
                               !.result = VerifyProofCaught]
              ELSE [vfy EXCEPT !.pc = "logged"]
    /\ VerifyFrame

\* verifyProof: const isValid = await snarkjs.groth16.verify(...); return isValid
VerifyProofBackend ==
    /\ vfy.pc = "logged"
    /\ \E outcome \in Groth16VerifyOutcomes(vfy.call.proof, vfy.call.publicSignals) :
          vfy' = IF outcome = "throws"
                 THEN [vfy EXCEPT !.pc = "returned", !.backend = outcome,
                                  !.caught = "groth16.verify", !.result = VerifyProofCaught]
                 ELSE [vfy EXCEPT !.pc = "returned", !.backend = outcome,
                                  !.result = (outcome = "true")]
    /\ VerifyFrame

\* verifyWitness: outputValue === 1n || outputValue === 1 ||
\* outputValue.toString() === "1"
IsValidOutput(outputValue) == outputValue = One \/ DecString(outputValue) = DecString(One)

\* verifyWitness(witness): witness[witness.length - 1] is undefined for the
\* empty array, and undefined.toString() throws into the catch
VerifyWitness ==
    /\ vfy.pc = "called"
    /\ vfy.call.fn = "verifyWitness"
    /\ LET witness == vfy.call.witness
           outputIndex == Len(witness) - 1
       IN  vfy' = IF outputIndex < 0
                  THEN [vfy EXCEPT !.pc = "returned", !.caught = "TypeError",
                                   !.result = FALSE]
                  ELSE [vfy EXCEPT !.pc = "returned",
                                   !.result = IsValidOutput(witness[outputIndex + 1])]
    /\ VerifyFrame

\* pubkey.every((val, i) => val === expectedPubkey[i])
Every(pubkey, expectedPubkey) ==
    \A i \in 1..Len(pubkey) : i <= Len(expectedPubkey) /\ pubkey[i] = expectedPubkey[i]

\* derivePrivateKey reads seed[0..7] and path[0..3] of its arguments
ArgsEntryMissing(a) == Len(a.seed) < 8 \/ Len(a.path1) < 4 \/ Len(a.path2) < 4

\* verifyKeyDerivation(seed, expectedPubkey1, expectedPubkey2, path1, path2)
VerifyKeyDerivation ==
    /\ vfy.pc = "called"
    /\ vfy.call.fn = "verifyKeyDerivation"
    /\ IF ArgsEntryMissing(vfy.call.args)
       THEN vfy' = [vfy EXCEPT !.pc = "returned", !.caught = "deriveTwoPublicKeys",
                               !.result = FALSE]
       ELSE \E hs \in FreshHashes :
               LET r == DeriveTwoPublicKeysOf("keyDerivation.ts", vfy.call.args, <<>>, hs)
                   expected == ExpectedKeys(vfy.call.expected, r.pubkey1, r.pubkey2)
                   match1 == Every(r.pubkey1, expected[1])
                   match2 == Every(r.pubkey2, expected[2])
               IN  vfy' = [vfy EXCEPT !.pc = "returned",
                                      !.compared = [derived |-> <<r.pubkey1, r.pubkey2>>,
                                                    expected |-> expected],
                                      !.result = match1 /\ match2]
    /\ VerifyFrame

NextVerify ==
    \/ VerifyProofLoadKey
    \/ VerifyProofLog
    \/ VerifyProofBackend
    \/ VerifyWitness
    \/ VerifyKeyDerivation

SpecVerify == InitVerify /\ [][NextVerify]_vars

Returned(fn) == vfy.call.fn = fn /\ vfy.pc = "returned"

\* C22: a failure inside the verification backend reaches the caller of
\* verifyProof as something other than the result of a rejected proof.
C22_FailureDistinctFromRejection ==
    (Returned("verifyProof") /\ vfy.caught # "") => vfy.result # FALSE

\* C23: verifyProof returns true only when snarkjs.groth16.verify returned
\* true; for a malformed proof, public signals of the wrong length or order,
\* or any exception it returns false; it never throws.
C23_TrueOnlyFromBackend ==
    /\ vfy.thrown = ""
    /\ Returned("verifyProof") =>
          /\ vfy.result = TRUE => vfy.backend = "true"
          /\ ( \/ vfy.call.proof = "malformed"
               \/ vfy.call.publicSignals \in {"wrongLength", "wrongOrder"}
               \/ vfy.caught # "" ) => vfy.result = FALSE

C23_Witness ==
    /\ Returned("verifyProof")
    /\ vfy.backend = "throws"
    /\ vfy.call.proof = "malformed"
    /\ vfy.result = FALSE

\* the output of main in a witness: the entry after the constant 1
OutputSignal(witness) == witness[2]

C26_WholeArrayEquality ==
    Returned("verifyKeyDerivation") =>
        /\ vfy.thrown = ""
        /\ vfy.caught # "" => vfy.result = FALSE
        /\ vfy.caught = "" =>
              (vfy.result = TRUE <=> vfy.compared.derived = vfy.compared.expected)

\* ------------------------------------------------------------------------
\* index2.ts: main
\* ------------------------------------------------------------------------

\* const path1 = [44, 501, 0, 0]; const path2 = [44, 501, 0, 1]; with each
\* sampled seed in the place of stringToSeed(seedString)
MainArgs == CallArgs

\* what the four poseidon(...) invocations of main's deriveTwoPublicKeys return
MainHashes == [1..4 -> HashSamples]

MainSteps == <<"deriveTwoPublicKeys", "verifyKeyDerivation", "generateProof", "verifyProof">>

InitMain ==
    /\ PrvIdle
    /\ poseidon = 0 /\ F = 0 /\ builds = 0 /\ callers = <<>> /\ calls = <<>>
    /\ vfy = <<>>
    /\ \E a \in MainArgs :
          drv = [pc |-> "step1", args |-> a, invoked |-> <<>>, keys |-> <<>>,
                 derivationValid |-> FALSE, proof |-> "none", proofValid |-> FALSE,
                 printed |-> <<>>, threw |-> "", exitCode |-> -1]
    /\ CktIdle
    /\ RefIdle

MainFrame ==
    /\ UNCHANGED <<poseidon, F, builds, callers, calls, vfy>>
    /\ UNCHANGED <<cktVars, prvVars, refVars>>

\* catch (error) { console.error("Error in main function:", error);
\* process.exit(1); } entered from the step named fn
MainCatch(fn, error) ==
    [drv EXCEPT !.pc = "exited", !.invoked = Append(@, fn), !.threw = error,
                !.printed = Append(@, "Error in main function:"), !.exitCode = 1]

\* Step 1: await deriveTwoPublicKeys(seed, path1, path2), and its log lines
MainDeriveKeys ==
    /\ drv.pc = "step1"
    /\ \/ \E hs \in MainHashes :
             LET r == DeriveTwoPublicKeysOf("keyDerivation.ts", drv.args, <<>>, hs)
             IN  drv' = [drv EXCEPT !.pc = "step2",
                                    !.invoked = Append(@, MainSteps[1]),
                                    !.keys = <<r.pubkey1, r.pubkey2>>,
                                    !.printed = Append(@, "Derived public keys:")]
       \/ drv' = MainCatch(MainSteps[1], "buildPoseidon failed")
    /\ MainFrame

\* Step 2: derivationValid = await verifyKeyDerivation(seed, pubkey1, pubkey2,
\* path1, path2): false when the derivation inside it throws, else the
\* comparison of the keys with themselves
MainVerifyKeyDerivation ==
    /\ drv.pc = "step2"
    /\ \E caught \in BOOLEAN :
          LET valid == ~caught /\ Every(drv.keys[1], drv.keys[1])
                               /\ Every(drv.keys[2], drv.keys[2])
          IN  drv' = [drv EXCEPT !.pc = "step3",
                                 !.invoked = Append(@, MainSteps[2]),
                                 !.derivationValid = valid,
                                 !.printed = Append(@, IF valid
                                                THEN "Key derivation verification: PASSED"
                                                ELSE "Key derivation verification: FAILED")]
    /\ MainFrame

\* Step 3: { proof, publicSignals } = await generateProof(...), which
\* resolves or rethrows what fullProve rejected with
MainGenerateProof ==
    /\ drv.pc = "step3"
    /\ \/ drv' = [drv EXCEPT !.pc = "step4",
                              !.invoked = Append(@, MainSteps[3]),
                              !.proof = "resolved",
                              !.printed = Append(@, "Proof generated successfully")]
       \/ \E error \in BackendErrors : drv' = MainCatch(MainSteps[3], Rethrown(error))
    /\ MainFrame

\* Step 4: proofValid = await verifyProof(proof, publicSignals)
MainVerifyProof ==
    /\ drv.pc = "step4"
    /\ \E valid \in BOOLEAN :
          drv' = [drv EXCEPT !.pc = "summary",
                             !.invoked = Append(@, MainSteps[4]),
                             !.proofValid = valid,
                             !.printed = Append(@, IF valid THEN "Proof verification: PASSED"
                                                   ELSE "Proof verification: FAILED")]
    /\ MainFrame

AllPassed_Either(derivationValid, proofValid) == derivationValid \/ proofValid

\* if (derivationValid && proofValid)
AllPassed(derivationValid, proofValid) == derivationValid /\ proofValid

\* the summary lines and the closing message; main returns and the process
\* ends with code 0
MainSummary ==
    /\ drv.pc = "summary"
    /\ drv' = [drv EXCEPT !.pc = "done",
                          !.printed = @ \o
                              << "Summary:",
                                 IF AllPassed(drv.derivationValid, drv.proofValid)
                                 THEN "All tests passed!"
                                 ELSE IF drv.derivationValid /\ ~drv.proofValid
                                 THEN "Key derivation works, but proof verification failed."
                                 ELSE "Some tests failed." >>,
                          !.exitCode = 0]
    /\ MainFrame

NextMain ==
    \/ MainDeriveKeys
    \/ MainVerifyKeyDerivation
    \/ MainGenerateProof
    \/ MainVerifyProof
    \/ MainSummary

SpecMain == InitMain /\ [][NextMain]_vars

Printed(line) == \E i \in 1..Len(drv.printed) : drv.printed[i] = line

\* C28: main runs deriveTwoPublicKeys, verifyKeyDerivation, generateProof,
\* verifyProof in this order, verifyProof only after generateProof resolved
\* with a proof; when a step throws the process exits with code 1 and prints
\* no summary; "All tests passed" is printed only when derivationValid and
\* proofValid are both true.
C28_OrderedSteps ==
    /\ Len(drv.invoked) <= Len(MainSteps)
    /\ \A i \in 1..Len(drv.invoked) : drv.invoked[i] = MainSteps[i]
    /\ (Len(drv.invoked) = 4) => (drv.proof = "resolved" /\ drv.threw = "")
    /\ (drv.threw # "") =>
          /\ drv.exitCode = 1
          /\ ~Printed("Summary:")
          /\ ~Printed("All tests passed!")
    /\ Printed("All tests passed!") => (drv.derivationValid /\ drv.proofValid)

C28_Witness ==
    /\ drv.pc = "done"
    /\ Printed("All tests passed!")
    /\ drv.invoked = MainSteps
    /\ drv.exitCode = 0

=============================================================================
